---- MODULE Spec2Model ----
(***************************************************************************)
(* propositions/operators.py: syntactic conversion of propositional        *)
(* formulas to the operator sets {~,&,|}, {~,&}, {-&}, {->,~} and {->,F}.  *)
(*                                                                         *)
(* A formula is a record with a root and, by the root's arity, the fields  *)
(* first and second.  Each converter is an operator computed as its code   *)
(* computes it; Spec applies the converters to every formula of a bounded  *)
(* size, and SpecRun executes one call as the stack of its recursive       *)
(* invocations.                                                            *)
(***************************************************************************)
EXTENDS Integers, Sequences, FiniteSets, TLC

(***************************************************************************)
(* Bounds                                                                  *)
(***************************************************************************)
\* Largest number of nodes of an input formula.
MaxSize == 4
\* Largest number of successive calls of a converter (each on the previous
\* call's output) in Spec.
MaxCalls == 2

\* Variable names the input formulas are built from; 'p' is also the default
\* name of the converters.
VarNames == {"p", "q"}

(***************************************************************************)
(* propositions/syntax.py (interface used by operators.py)                 *)
(***************************************************************************)
BinaryOps == {"&", "|", "->", "+", "<->", "-&", "-|"}

is_variable(s) == s \in VarNames
is_constant(s) == s \in {"T", "F"}
is_unary(s) == s = "~"
is_binary(s) == s \in BinaryOps

\* Formula(root), Formula(root, first), Formula(root, first, second)
Formula0(root) == [root |-> root]
Formula1(root, first) == [root |-> root, first |-> first]
Formula2(root, first, second) == [root |-> root, first |-> first, second |-> second]

\* Formula.variables()
RECURSIVE variables(_)
variables(formula) ==
  IF is_variable(formula.root) THEN {formula.root}
  ELSE IF is_constant(formula.root) THEN {}
  ELSE IF is_unary(formula.root) THEN variables(formula.first)
  ELSE variables(formula.first) \cup variables(formula.second)

\* Formula.operators(): the operators and constants of a formula
RECURSIVE operators(_)
operators(formula) ==
  IF is_variable(formula.root) THEN {}
  ELSE IF is_constant(formula.root) THEN {formula.root}
  ELSE IF is_unary(formula.root) THEN {formula.root} \cup operators(formula.first)
  ELSE {formula.root} \cup operators(formula.first) \cup operators(formula.second)

\* Number of nodes of a formula tree.
RECURSIVE Size(_)
Size(formula) ==
  IF is_variable(formula.root) \/ is_constant(formula.root) THEN 1
  ELSE IF is_unary(formula.root) THEN 1 + Size(formula.first)
  ELSE 1 + Size(formula.first) + Size(formula.second)

\* The well-formed formulas of exactly n nodes.
RECURSIVE FormulasOfSize(_)
FormulasOfSize(n) ==
  IF n = 1 THEN {Formula0(r) : r \in VarNames \cup {"T", "F"}}
  ELSE {Formula1("~", a) : a \in FormulasOfSize(n - 1)}
       \cup UNION {UNION {{Formula2(op, a, b) : a \in FormulasOfSize(k),
                                                b \in FormulasOfSize(n - 1 - k)}
                          : op \in BinaryOps}
                   : k \in 1..(n - 2)}

RECURSIVE FormulasUpTo(_)
FormulasUpTo(n) == IF n = 0 THEN {} ELSE FormulasUpTo(n - 1) \cup FormulasOfSize(n)

(***************************************************************************)
(* propositions/semantics.py (used to state the truth-table claims)        *)
(***************************************************************************)
Models == [VarNames -> BOOLEAN]

\* evaluate(formula, model)
RECURSIVE evaluate(_, _)
evaluate(formula, model) ==
  IF is_variable(formula.root) THEN model[formula.root]
  ELSE IF is_constant(formula.root) THEN formula.root = "T"
  ELSE IF is_unary(formula.root) THEN ~evaluate(formula.first, model)
  ELSE LET a == evaluate(formula.first, model)
           b == evaluate(formula.second, model)
       IN CASE formula.root = "&" -> a /\ b
            [] formula.root = "|" -> a \/ b
            [] formula.root = "->" -> ~a \/ b
            [] formula.root = "+" -> a # b
            [] formula.root = "<->" -> a = b
            [] formula.root = "-&" -> ~(a /\ b)
            [] formula.root = "-|" -> ~(a \/ b)

(***************************************************************************)
(* Python run-time behaviour                                               *)
(***************************************************************************)
\* The absent value of a child that a node does not have.
None == [root |-> "None"]
\* The outcome of a call in which an assert statement failed.
AssertionError == [root |-> "AssertionError"]

\* The iteration orders a set of names can have: one first element for every
\* non-empty set of variable names.
Picks == {pick \in [(SUBSET VarNames) \ {{}} -> VarNames] :
            \A S \in (SUBSET VarNames) \ {{}} : pick[S] \in S}

\* next(iter(s), 'p'): the first element of s in its iteration order, 'p' for
\* the empty set.
NextIter(s, pick) == IF s = {} THEN "p" ELSE pick[s]

(***************************************************************************)
(* to_not_and_or                                                           *)
(***************************************************************************)
\* Fault of to_not_and_or: the '~' case returns the converted child without
\* its negation.
to_not_and_or_body_not_dropped(formula, first, second, pick) ==
  IF is_variable(formula.root) THEN Formula0(formula.root)
  ELSE
  LET v == NextIter(variables(formula), pick) IN
  IF is_constant(formula.root) THEN
    IF formula.root = "T"
    THEN Formula2("|", Formula0(v), Formula1("~", Formula0(v)))
    ELSE Formula2("&", Formula0(v), Formula1("~", Formula0(v)))
  ELSE IF is_unary(formula.root) THEN first
  ELSE IF formula.root = "&" THEN Formula2("&", first, second)
  ELSE IF formula.root = "|" THEN Formula2("|", first, second)
  ELSE IF formula.root = "->" THEN Formula2("|", Formula1("~", first), second)
  ELSE IF formula.root = "+" THEN
    LET left == Formula2("&", first, Formula1("~", second))
        right == Formula2("&", Formula1("~", first), second)
    IN Formula2("|", left, right)
  ELSE IF formula.root = "<->" THEN
    LET left == Formula2("&", first, second)
        right == Formula2("&", Formula1("~", first), Formula1("~", second))
    IN Formula2("|", left, right)
  ELSE IF formula.root = "-&" THEN Formula1("~", Formula2("&", first, second))
  ELSE IF formula.root = "-|" THEN Formula1("~", Formula2("|", first, second))
  ELSE AssertionError

\* What one invocation of to_not_and_or returns, given the values `first` and
\* `second` returned by its recursive calls on formula.first and
\* formula.second.
to_not_and_or_body(formula, first, second, pick) ==
  IF is_variable(formula.root) THEN Formula0(formula.root)
  ELSE
  LET v == NextIter(variables(formula), pick) IN
  IF is_constant(formula.root) THEN
    IF formula.root = "T"
    THEN Formula2("|", Formula0(v), Formula1("~", Formula0(v)))
    ELSE Formula2("&", Formula0(v), Formula1("~", Formula0(v)))
  ELSE IF is_unary(formula.root) THEN Formula1("~", first)
  ELSE IF formula.root = "&" THEN Formula2("&", first, second)
  ELSE IF formula.root = "|" THEN Formula2("|", first, second)
  ELSE IF formula.root = "->" THEN Formula2("|", Formula1("~", first), second)
  ELSE IF formula.root = "+" THEN
    LET left == Formula2("&", first, Formula1("~", second))
        right == Formula2("&", Formula1("~", first), second)
    IN Formula2("|", left, right)
  ELSE IF formula.root = "<->" THEN
    LET left == Formula2("&", first, second)
        right == Formula2("&", Formula1("~", first), Formula1("~", second))
    IN Formula2("|", left, right)
  ELSE IF formula.root = "-&" THEN Formula1("~", Formula2("&", first, second))
  ELSE IF formula.root = "-|" THEN Formula1("~", Formula2("|", first, second))
  ELSE AssertionError

(***************************************************************************)
(* to_not_and                                                              *)
(***************************************************************************)
to_not_and_body(formula, first, second, pick) ==
  IF is_variable(formula.root) THEN Formula0(formula.root)
  ELSE
  LET v == NextIter(variables(formula), pick) IN
  IF is_constant(formula.root) THEN
    IF formula.root = "T"
    THEN Formula1("~", Formula2("&", Formula0(v), Formula1("~", Formula0(v))))
    ELSE Formula2("&", Formula0(v), Formula1("~", Formula0(v)))
  ELSE IF is_unary(formula.root) THEN Formula1("~", first)
  ELSE IF formula.root = "&" THEN Formula2("&", first, second)
  ELSE IF formula.root = "|" THEN
    Formula1("~", Formula2("&", Formula1("~", first), Formula1("~", second)))
  ELSE IF formula.root = "->" THEN
    Formula1("~", Formula2("&", first, Formula1("~", second)))
  ELSE IF formula.root = "+" THEN
    LET a_or_b == Formula1("~", Formula2("&", Formula1("~", first), Formula1("~", second)))
        a_and_b == Formula2("&", first, second)
    IN Formula2("&", a_or_b, Formula1("~", a_and_b))
  ELSE IF formula.root = "<->" THEN
    LET a_and_b == Formula2("&", first, second)
        na_and_nb == Formula2("&", Formula1("~", first), Formula1("~", second))
    IN Formula1("~", Formula2("&", Formula1("~", a_and_b), Formula1("~", na_and_nb)))
  ELSE IF formula.root = "-&" THEN Formula1("~", Formula2("&", first, second))
  ELSE IF formula.root = "-|" THEN Formula2("&", Formula1("~", first), Formula1("~", second))
  ELSE AssertionError

(***************************************************************************)
(* to_nand                                                                 *)
(***************************************************************************)
\* Fault of nand: the operands exchanged.
nand_swapped(a, b) == Formula2("-&", b, a)

nand(a, b) == Formula2("-&", a, b)

\* Fault of to_nand: the '<->' case ends like the '+' case, with nand(x, x).
to_nand_body_iff_as_xor(formula, first, second, pick) ==
  IF is_variable(formula.root) THEN Formula0(formula.root)
  ELSE
  LET v == NextIter(variables(formula), pick)
      t == nand(Formula0(v), nand(Formula0(v), Formula0(v)))
      f == nand(t, t)
  IN
  IF is_constant(formula.root) THEN
    IF formula.root = "T" THEN t ELSE f
  ELSE IF is_unary(formula.root) THEN
    LET x == first IN nand(x, x)
  ELSE IF formula.root = "-&" THEN nand(first, second)
  ELSE IF formula.root = "&" THEN
    LET x == nand(first, second) IN nand(x, x)
  ELSE IF formula.root = "|" THEN
    LET na == nand(first, first)
        nb == nand(second, second)
    IN nand(na, nb)
  ELSE IF formula.root = "->" THEN
    LET nb == nand(second, second) IN nand(first, nb)
  ELSE IF formula.root = "-|" THEN
    LET na == nand(first, first)
        nb == nand(second, second)
        a_or_b == nand(na, nb)
    IN nand(a_or_b, a_or_b)
  ELSE IF formula.root = "+" THEN
    LET na == nand(first, first)
        nb == nand(second, second)
        a_or_b == nand(na, nb)
        a_and_b == nand(nand(first, second), nand(first, second))
        not_a_and_b == nand(a_and_b, a_and_b)
        x == nand(a_or_b, not_a_and_b)
    IN nand(x, x)
  ELSE IF formula.root = "<->" THEN
    LET na == nand(first, first)
        nb == nand(second, second)
        a_or_b == nand(na, nb)
        a_and_b == nand(nand(first, second), nand(first, second))
        not_a_and_b == nand(a_and_b, a_and_b)
        x == nand(a_or_b, not_a_and_b)
    IN nand(x, x)
  ELSE AssertionError

to_nand_body(formula, first, second, pick) ==
  IF is_variable(formula.root) THEN Formula0(formula.root)
  ELSE
  LET v == NextIter(variables(formula), pick)
      t == nand(Formula0(v), nand(Formula0(v), Formula0(v)))
      f == nand(t, t)
  IN
  IF is_constant(formula.root) THEN
    IF formula.root = "T" THEN t ELSE f
  ELSE IF is_unary(formula.root) THEN
    LET x == first IN nand(x, x)
  ELSE IF formula.root = "-&" THEN nand(first, second)
  ELSE IF formula.root = "&" THEN
    LET x == nand(first, second) IN nand(x, x)
  ELSE IF formula.root = "|" THEN
    LET na == nand(first, first)
        nb == nand(second, second)
    IN nand(na, nb)
  ELSE IF formula.root = "->" THEN
    LET nb == nand(second, second) IN nand(first, nb)
  ELSE IF formula.root = "-|" THEN
    LET na == nand(first, first)
        nb == nand(second, second)
        a_or_b == nand(na, nb)
    IN nand(a_or_b, a_or_b)
  ELSE IF formula.root = "+" THEN
    LET na == nand(first, first)
        nb == nand(second, second)
        a_or_b == nand(na, nb)
        a_and_b == nand(nand(first, second), nand(first, second))
        not_a_and_b == nand(a_and_b, a_and_b)
        x == nand(a_or_b, not_a_and_b)
    IN nand(x, x)
  ELSE IF formula.root = "<->" THEN
    LET na == nand(first, first)
        nb == nand(second, second)
        a_or_b == nand(na, nb)
        a_and_b == nand(nand(first, second), nand(first, second))
        not_a_and_b == nand(a_and_b, a_and_b)
        x == nand(a_or_b, not_a_and_b)
    IN x
  ELSE AssertionError

(***************************************************************************)
(* to_implies_not                                                          *)
(***************************************************************************)
\* Fault of make_or: the negation of a forgotten.
implies_not_make_or_plain(a, b) == Formula2("->", a, b)

implies_not_make_or(a, b) == Formula2("->", Formula1("~", a), b)

\* Fault of make_and: a written where b is meant.
implies_not_make_and_twice_a(a, b) == Formula1("~", Formula2("->", a, Formula1("~", a)))

implies_not_make_and(a, b) == Formula1("~", Formula2("->", a, Formula1("~", b)))

\* Fault of to_implies_not: the '<->' case missing, so that '<->' reaches the
\* final assert.
to_implies_not_body_no_iff(formula, first, second, pick) ==
  IF is_variable(formula.root) THEN Formula0(formula.root)
  ELSE
  LET v == NextIter(variables(formula), pick)
      t == Formula2("->", Formula0(v), Formula0(v))
  IN
  IF is_constant(formula.root) THEN
    IF formula.root = "T" THEN t ELSE Formula1("~", t)
  ELSE IF is_unary(formula.root) THEN Formula1("~", first)
  ELSE IF formula.root = "->" THEN Formula2("->", first, second)
  ELSE IF formula.root = "|" THEN implies_not_make_or(first, second)
  ELSE IF formula.root = "&" THEN implies_not_make_and(first, second)
  ELSE IF formula.root = "-&" THEN Formula1("~", implies_not_make_and(first, second))
  ELSE IF formula.root = "-|" THEN Formula1("~", implies_not_make_or(first, second))
  ELSE IF formula.root = "+" THEN
    LET a_or_b == implies_not_make_or(first, second)
        a_and_b == implies_not_make_and(first, second)
    IN implies_not_make_and(a_or_b, Formula1("~", a_and_b))
  ELSE AssertionError

to_implies_not_body(formula, first, second, pick) ==
  IF is_variable(formula.root) THEN Formula0(formula.root)
  ELSE
  LET v == NextIter(variables(formula), pick)
      t == Formula2("->", Formula0(v), Formula0(v))
  IN
  IF is_constant(formula.root) THEN
    IF formula.root = "T" THEN t ELSE Formula1("~", t)
  ELSE IF is_unary(formula.root) THEN Formula1("~", first)
  ELSE IF formula.root = "->" THEN Formula2("->", first, second)
  ELSE IF formula.root = "|" THEN implies_not_make_or(first, second)
  ELSE IF formula.root = "&" THEN implies_not_make_and(first, second)
  ELSE IF formula.root = "-&" THEN Formula1("~", implies_not_make_and(first, second))
  ELSE IF formula.root = "-|" THEN Formula1("~", implies_not_make_or(first, second))
  ELSE IF formula.root = "<->" THEN
    implies_not_make_and(Formula2("->", first, second), Formula2("->", second, first))
  ELSE IF formula.root = "+" THEN
    LET a_or_b == implies_not_make_or(first, second)
        a_and_b == implies_not_make_and(first, second)
    IN implies_not_make_and(a_or_b, Formula1("~", a_and_b))
  ELSE AssertionError

(***************************************************************************)
(* to_implies_false                                                        *)
(***************************************************************************)
\* Fault of make_not: the negation of the {->, ~} basis.
implies_false_make_not_tilde(a) == Formula1("~", a)

implies_false_make_not(a) == Formula2("->", a, Formula0("F"))

implies_false_make_or(a, b) == Formula2("->", implies_false_make_not(a), b)

\* Fault of make_and: one negation too many.
implies_false_make_and_double(a, b) ==
  implies_false_make_not(
    implies_false_make_not(Formula2("->", a, implies_false_make_not(b))))

implies_false_make_and(a, b) ==
  implies_false_make_not(Formula2("->", a, implies_false_make_not(b)))

\* Fault of t: the tautology of the {->, ~} basis.
implies_false_t_var == Formula2("->", Formula0("p"), Formula0("p"))

\* t of to_implies_false
implies_false_t == Formula2("->", Formula0("F"), Formula0("F"))

\* to_implies_false never calls formula.variables(): pick is not read.
to_implies_false_body(formula, first, second, pick) ==
  IF is_variable(formula.root) THEN Formula0(formula.root)
  ELSE
  LET t == implies_false_t IN
  IF is_constant(formula.root) THEN
    IF formula.root = "T" THEN t ELSE Formula0("F")
  ELSE IF is_unary(formula.root) THEN implies_false_make_not(first)
  ELSE IF formula.root = "->" THEN Formula2("->", first, second)
  ELSE IF formula.root = "|" THEN implies_false_make_or(first, second)
  ELSE IF formula.root = "&" THEN implies_false_make_and(first, second)
  ELSE IF formula.root = "-&" THEN implies_false_make_not(implies_false_make_and(first, second))
  ELSE IF formula.root = "-|" THEN implies_false_make_not(implies_false_make_or(first, second))
  ELSE IF formula.root = "<->" THEN
    implies_false_make_and(Formula2("->", first, second), Formula2("->", second, first))
  ELSE IF formula.root = "+" THEN
    LET a_or_b == implies_false_make_or(first, second)
        a_and_b == implies_false_make_and(first, second)
    IN implies_false_make_and(a_or_b, implies_false_make_not(a_and_b))
  ELSE AssertionError

(***************************************************************************)
(* The converters as functions: the body applied along the recursion       *)
(***************************************************************************)
Converters == {"to_not_and_or", "to_not_and", "to_nand", "to_implies_not",
               "to_implies_false"}

\* The return statement an invocation of converter C reaches.
Body(C, formula, first, second, pick) ==
  CASE C = "to_not_and_or" -> to_not_and_or_body(formula, first, second, pick)
    [] C = "to_not_and" -> to_not_and_body(formula, first, second, pick)
    [] C = "to_nand" -> to_nand_body(formula, first, second, pick)
    [] C = "to_implies_not" -> to_implies_not_body(formula, first, second, pick)
    [] C = "to_implies_false" -> to_implies_false_body(formula, first, second, pick)

\* The recursive calls of an invocation, in the code's order: none for a
\* variable or a constant, formula.first for a unary root, formula.first and
\* then formula.second otherwise.
Callees(formula) ==
  IF is_variable(formula.root) \/ is_constant(formula.root) THEN <<>>
  ELSE IF is_unary(formula.root) THEN <<formula.first>>
  ELSE <<formula.first, formula.second>>

\* A call of converter C: its recursive calls, then its return statement; an
\* exception raised by a recursive call propagates.
RECURSIVE Call(_, _, _)
Call(C, formula, pick) ==
  LET callees == Callees(formula) IN
  IF Len(callees) = 0 THEN Body(C, formula, None, None, pick)
  ELSE LET first == Call(C, callees[1], pick) IN
       IF first = AssertionError THEN AssertionError
       ELSE IF Len(callees) = 1 THEN Body(C, formula, first, None, pick)
       ELSE LET second == Call(C, callees[2], pick) IN
            IF second = AssertionError THEN AssertionError
            ELSE Body(C, formula, first, second, pick)

to_not_and_or(formula, pick) == Call("to_not_and_or", formula, pick)
to_not_and(formula, pick) == Call("to_not_and", formula, pick)
to_nand(formula, pick) == Call("to_nand", formula, pick)
to_implies_not(formula, pick) == Call("to_implies_not", formula, pick)
to_implies_false(formula, pick) == Call("to_implies_false", formula, pick)

(***************************************************************************)
(* State                                                                   *)
(***************************************************************************)
VARIABLES
  formula,    \* the caller's input formula
  converter,  \* the converter the caller uses, "none" before the first call
  out,        \* the values returned (or AssertionError raised) by the calls so far
  stack       \* SpecRun: the invocations in progress, innermost last

vars == <<formula, converter, out, stack>>

(***************************************************************************)
(* Spec: a caller converts a formula, then converts the output again       *)
(***************************************************************************)
Init ==
  /\ formula \in FormulasUpTo(MaxSize)
  /\ converter = "none"
  /\ out = <<>>
  /\ stack = <<>>

\* The argument of the next call: the input, then the previous output.
Arg == IF out = <<>> THEN formula ELSE out[Len(out)]

Apply(C) ==
  /\ converter \in {"none", C}
  /\ Len(out) < MaxCalls
  /\ Arg # AssertionError
  /\ \E pick \in Picks : out' = Append(out, Call(C, Arg, pick))
  /\ converter' = C
  /\ UNCHANGED <<formula, stack>>

ToNotAndOr == Apply("to_not_and_or")
ToNotAnd == Apply("to_not_and")
ToNand == Apply("to_nand")
ToImpliesNot == Apply("to_implies_not")
ToImpliesFalse == Apply("to_implies_false")

Next == ToNotAndOr \/ ToNotAnd \/ ToNand \/ ToImpliesNot \/ ToImpliesFalse

Spec == Init /\ [][Next]_vars

(***************************************************************************)
(* SpecRun: one call, executed invocation by invocation                    *)
(***************************************************************************)
Frame(f) == [formula |-> f, first |-> None, second |-> None]

\* How many of its recursive calls an invocation has completed.
Completed(frame) ==
  IF frame.first = None THEN 0 ELSE IF frame.second = None THEN 1 ELSE 2

Top == stack[Len(stack)]

InitRun ==
  /\ formula \in FormulasUpTo(MaxSize)
  /\ converter = "none"
  /\ out = <<>>
  /\ stack = <<>>

\* The caller calls converter C on the input.
Invoke(C) ==
  /\ converter = "none"
  /\ converter' = C
  /\ stack' = <<Frame(formula)>>
  /\ UNCHANGED <<formula, out>>

\* The innermost invocation makes its next recursive call.
Recurse ==
  /\ stack # <<>>
  /\ Completed(Top) < Len(Callees(Top.formula))
  /\ stack' = Append(stack, Frame(Callees(Top.formula)[Completed(Top) + 1]))
  /\ UNCHANGED <<formula, converter, out>>

\* The innermost invocation reaches a return statement, or its final assert
\* fails and the exception ends the whole call.
Return ==
  /\ stack # <<>>
  /\ Completed(Top) = Len(Callees(Top.formula))
  /\ \E pick \in Picks :
       LET value == Body(converter, Top.formula, Top.first, Top.second, pick)
           rest == SubSeq(stack, 1, Len(stack) - 1)
       IN IF value = AssertionError
          THEN stack' = <<>> /\ out' = <<AssertionError>>
          ELSE IF rest = <<>>
          THEN stack' = <<>> /\ out' = <<value>>
          ELSE /\ stack' = [rest EXCEPT ![Len(rest)] =
                              IF @.first = None
                              THEN [@ EXCEPT !.first = value]
                              ELSE [@ EXCEPT !.second = value]]
               /\ out' = out
  /\ UNCHANGED <<formula, converter>>

InvokeAny == \E C \in Converters : Invoke(C)

NextRun == InvokeAny \/ Recurse \/ Return

\* The interpreter runs a call to its end: a step that can be taken is taken.
SpecRun == InitRun /\ [][NextRun]_vars /\ WF_vars(NextRun)

(***************************************************************************)
(* Vocabulary of the properties                                            *)
(***************************************************************************)
\* The operators and constants of each converter's target basis.
Basis(C) ==
  CASE C = "to_not_and_or" -> {"~", "&", "|"}
    [] C = "to_not_and" -> {"~", "&"}
    [] C = "to_nand" -> {"-&"}
    [] C = "to_implies_not" -> {"->", "~"}
    [] C = "to_implies_false" -> {"->", "F"}

RECURSIVE WellFormed(_)
WellFormed(f) ==
  \/ DOMAIN f = {"root"} /\ (is_variable(f.root) \/ is_constant(f.root))
  \/ DOMAIN f = {"root", "first"} /\ is_unary(f.root) /\ WellFormed(f.first)
  \/ /\ DOMAIN f = {"root", "first", "second"}
     /\ is_binary(f.root)
     /\ WellFormed(f.first)
     /\ WellFormed(f.second)

\* Two formulas have the same truth value under every assignment.
Equivalent(f, g) == \A model \in Models : evaluate(f, model) = evaluate(g, model)

\* out[i] is the value a call returned (no assert failed in it).
ReturnedAt(i) == Len(out) >= i /\ out[i] # AssertionError

\* g is the subtree formula.first or formula.second of f.
StrictSubtree(g, f) ==
  /\ ~(is_variable(f.root) \/ is_constant(f.root))
  /\ g = f.first \/ (is_binary(f.root) /\ g = f.second)

\* SpecRun: this step ends the innermost invocation.
IsReturn == stack # <<>> /\ Len(stack') < Len(stack)

\* SpecRun: the value the ending invocation hands to its caller.
ReturnedValue ==
  IF stack' = <<>> THEN out'[1]
  ELSE IF stack[Len(stack) - 1].first = None
       THEN stack'[Len(stack')].first
       ELSE stack'[Len(stack')].second

(***************************************************************************)
(* Properties                                                              *)
(***************************************************************************)

\* C1 - Semantic equivalence: whatever converter is called on a well-formed
\* formula, it returns a formula that has the input's truth value under every
\* assignment to the variables, the ones that occur only in the output
\* included.
SemanticEquivalence ==
  Len(out) >= 1 => ReturnedAt(1) /\ Equivalent(out[1], formula)

\* A NAND conversion of an exclusive or that had to introduce a variable.
SemanticEquivalenceWitness ==
  /\ converter = "to_nand"
  /\ ReturnedAt(1)
  /\ formula.root = "+"
  /\ variables(out[1]) # variables(formula)

\* C2 - Basis containment: every operator and constant of a converter's output
\* belongs to the converter's target basis (no constant at all, except F for
\* to_implies_false).
BasisContainment ==
  \A i \in 1..Len(out) : ReturnedAt(i) /\ operators(out[i]) \subseteq Basis(converter)

\* to_implies_false has eliminated a negation and the constant T.
BasisContainmentWitness ==
  /\ converter = "to_implies_false"
  /\ ReturnedAt(1)
  /\ {"~", "T"} \subseteq operators(formula)

\* C3 - Totality: no final assert of a converter fails, every recursive call is
\* on formula.first or formula.second of the calling invocation's argument
\* (a strictly smaller tree), and every call ends by returning a well-formed
\* formula.
Totality ==
  /\ [](out # <<AssertionError>>)
  /\ [][Len(stack') > Len(stack) /\ stack # <<>> =>
          /\ StrictSubtree(stack'[Len(stack')].formula, Top.formula)
          /\ Size(stack'[Len(stack')].formula) < Size(Top.formula)]_vars
  /\ <>(stack = <<>> /\ Len(out) = 1 /\ WellFormed(out[1]))

\* A call whose root is the operator of a converter's final assert has
\* returned.
TotalityWitness ==
  /\ stack = <<>>
  /\ ReturnedAt(1)
  /\ \/ converter \in {"to_not_and_or", "to_not_and"} /\ formula.root = "-|"
     \/ converter = "to_nand" /\ formula.root = "<->"
     \/ converter \in {"to_implies_not", "to_implies_false"} /\ formula.root = "+"

\* C4 - Composability: converting a converter's output again with the same
\* converter gives a formula with the same truth table.
Composability ==
  Len(out) >= 2 => ReturnedAt(2) /\ Equivalent(out[2], out[1])

\* A second conversion of an output in which a constant was encoded.
ComposabilityWitness ==
  /\ ReturnedAt(2)
  /\ operators(formula) \cap {"T", "F"} # {}
  /\ ~(operators(formula) \subseteq Basis(converter))

\* C5 - Variable choice: in the four converters without constants in their
\* basis, a constant is encoded with a variable of the formula passed to the
\* converter when it has one, and with 'p' otherwise; so the output of a
\* formula that has variables has no other variable.
VariableChoice ==
  (ReturnedAt(1) /\ converter # "to_implies_false") =>
    variables(out[1]) \subseteq
      (IF variables(formula) = {} THEN {"p"} ELSE variables(formula))

\* C6 - Constants in the {->, F} basis: every invocation of to_implies_false on
\* a constant F returns F and on a constant T returns (F->F); the output for
\* the bare constant T has no variable and evaluates to true.
ImpliesFalseConstants ==
  /\ [][(IsReturn /\ converter = "to_implies_false" /\ is_constant(Top.formula.root)) =>
          ReturnedValue = IF Top.formula.root = "F"
                          THEN Formula0("F")
                          ELSE Formula2("->", Formula0("F"), Formula0("F"))]_vars
  /\ []((converter = "to_implies_false" /\ formula = Formula0("T") /\ out # <<>>) =>
          /\ variables(out[1]) = {}
          /\ \A model \in Models : evaluate(out[1], model))

\* to_implies_false has converted a formula with the constant T below its
\* root.
ImpliesFalseConstantsWitness ==
  /\ converter = "to_implies_false"
  /\ stack = <<>>
  /\ ReturnedAt(1)
  /\ formula.root = "->"
  /\ formula.second = Formula0("T")
  /\ out[1].second = Formula2("->", Formula0("F"), Formula0("F"))

\* The AND rule of the {->, F} basis as the specification's table writes it:
\* the double negation of (a->(b->F)).
AndDoubleNegation(a, b) ==
  Formula2("->",
    Formula2("->",
      Formula2("->", a, Formula2("->", b, Formula0("F"))),
      Formula0("F")),
    Formula0("F"))

\* The single negation of (a->(b->F)).
AndNegation(a, b) ==
  Formula2("->",
    Formula2("->", a, Formula2("->", b, Formula0("F"))),
    Formula0("F"))

\* C7 as stated - AND rule in the {->, F} basis: (x & y) with converted
\* children a and b becomes (((a->(b->F))->F)->F).
ImpliesFalseAndDoubleNegation ==
  (converter = "to_implies_false" /\ ReturnedAt(1) /\ formula.root = "&") =>
    \A pick \in Picks :
      out[1] = AndDoubleNegation(to_implies_false(formula.first, pick),
                                 to_implies_false(formula.second, pick))

\* C7 as amended - (x & y) with converted children a and b becomes
\* ((a->(b->F))->F), the single negation of (a->(b->F)).
ImpliesFalseAndRule ==
  (converter = "to_implies_false" /\ ReturnedAt(1) /\ formula.root = "&") =>
    \A pick \in Picks :
      out[1] = AndNegation(to_implies_false(formula.first, pick),
                           to_implies_false(formula.second, pick))

\* to_implies_false has converted a conjunction whose children it had to
\* rewrite.
ImpliesFalseAndRuleWitness ==
  /\ converter = "to_implies_false"
  /\ ReturnedAt(1)
  /\ formula.root = "&"
  /\ formula.first.root = "~"
  /\ formula.second.root = "T"

\* The NAND terms of the XOR/IFF rule over converted children a and b.
NandOr(a, b) == Formula2("-&", Formula2("-&", a, a), Formula2("-&", b, b))
NandAndAB(a, b) == Formula2("-&", Formula2("-&", a, b), Formula2("-&", a, b))
\* The complement of AND: as the specification writes it, and as
\* NAND(ANDab, ANDab).
ShortNotAndAB(a, b) == Formula2("-&", a, b)
LongNotAndAB(a, b) == Formula2("-&", NandAndAB(a, b), NandAndAB(a, b))

\* C8 as stated - XOR/IFF in the NAND basis: with NOT_ANDab = NAND(a,b), XOR
\* becomes NAND(NAND(OR,NOT_ANDab), NAND(OR,NOT_ANDab)) and IFF becomes
\* NAND(OR,NOT_ANDab).
NandXorIffShortNotAnd ==
  (converter = "to_nand" /\ ReturnedAt(1) /\ formula.root \in {"+", "<->"}) =>
    \A pick \in Picks :
      LET a == to_nand(formula.first, pick)
          b == to_nand(formula.second, pick)
          x == Formula2("-&", NandOr(a, b), ShortNotAndAB(a, b))
      IN out[1] = IF formula.root = "+" THEN Formula2("-&", x, x) ELSE x

\* C8 as amended - the complement of AND is the term
\* NOT_ANDab = NAND(ANDab, ANDab) with ANDab = NAND(NAND(a,b), NAND(a,b)); XOR
\* becomes NAND(NAND(OR,NOT_ANDab), NAND(OR,NOT_ANDab)) and IFF becomes
\* NAND(OR,NOT_ANDab).
NandXorIffRule ==
  (converter = "to_nand" /\ ReturnedAt(1) /\ formula.root \in {"+", "<->"}) =>
    \A pick \in Picks :
      LET a == to_nand(formula.first, pick)
          b == to_nand(formula.second, pick)
          x == Formula2("-&", NandOr(a, b), LongNotAndAB(a, b))
      IN out[1] = IF formula.root = "+" THEN Formula2("-&", x, x) ELSE x

\* to_nand has converted an equivalence with a child it had to rewrite.
NandXorIffRuleWitness ==
  /\ converter = "to_nand"
  /\ ReturnedAt(1)
  /\ formula.root = "<->"
  /\ formula.first.root = "~"

\* C9 - Syntactic fixpoint: a formula that uses only the operators (and
\* constants) of the target basis is returned unchanged, and converting an
\* output again returns that output.
SyntacticFixpoint ==
  /\ (ReturnedAt(1) /\ operators(formula) \subseteq Basis(converter)) => out[1] = formula
  /\ Len(out) >= 2 => out[2] = out[1]

\* An output that differs from its input was converted again.
SyntacticFixpointWitness ==
  /\ ReturnedAt(2)
  /\ out[1] # formula
  /\ Size(out[1]) > 3

\* C10 - Variable-set preservation: the output has every variable of the
\* input and beyond them at most 'p'; it has a variable the input has not
\* only if the input contains a constant; to_implies_false's output has
\* exactly the input's variables.
VariablePreservation ==
  ReturnedAt(1) =>
    /\ variables(formula) \subseteq variables(out[1])
    /\ variables(out[1]) \subseteq variables(formula) \cup {"p"}
    /\ variables(out[1]) # variables(formula) => operators(formula) \cap {"T", "F"} # {}
    /\ converter = "to_implies_false" => variables(out[1]) = variables(formula)

\* 'p' was introduced into a formula over q.
VariablePreservationWitness ==
  /\ ReturnedAt(1)
  /\ variables(formula) = {"q"}
  /\ variables(out[1]) = {"p", "q"}

====
